---- MODULE Spec2Model ----
(***************************************************************************)
(* Model of the Pomodoro timer: the Timer component (its React state, the  *)
(* two setTimeout callbacks, the tick interval, the async startTimer and   *)
(* handleMuteToggle) and the handlers of its settings panel, together with *)
(* the localStorage-backed store of src/lib/storage.ts.                    *)
(*                                                                         *)
(* Durations are numbers of minutes in the source (0.2, 0.1, 0.15, ...).   *)
(* Here a duration is an integer number of hundredths of a minute, so that *)
(* Math.round(d * 60) is the rounding it is in the source.  A timestamp    *)
(* (new Date().toISOString()) is represented by its calendar date, a day   *)
(* number.  Audio playback is left out: it changes none of the state below. *)
(* The await on the sound system is kept: it splits startTimer and         *)
(* handleMuteToggle in two steps each.  One timer instance lives within    *)
(* one calendar day: today does not change under Spec.  The settings       *)
(* panel keeps its own copy of the configuration and the preferences, read *)
(* from the store when it opens; the timer's buttons stay within reach of  *)
(* the keyboard while it is open.                                          *)
(*                                                                         *)
(* A parsed JSON object is a function from its keys to their values; the   *)
(* keys whose value is null are the set under the key "null", which is     *)
(* there only when some key is null.                                       *)
(*                                                                         *)
(* The store is also modelled on its own, called as the settings panel and *)
(* the backup functions call it: SpecConfig is the configuration store     *)
(* over any persisted and any passed configuration, SpecStore the session  *)
(* history and the statistics over the days, SpecBackup the four sections  *)
(* under clearAllData, importData and exportData.  SpecUnavailable is the  *)
(* store without a usable localStorage, and SpecCorrupt the timer on a     *)
(* session history that is not JSON (SpecCorruptStore: the store alone).   *)
(***************************************************************************)
EXTENDS Integers, Sequences, FiniteSets, TLC

\* ------------------------------------------------------------------ bounds
MaxCompletions == 2 \* phases this timer instance completes
MaxCycle == 7       \* the same, when the settings are left alone
MaxCallbacks == 2   \* pending setTimeout callbacks and suspended async handlers
MaxRecords == 3     \* sessions recorded through the store on its own
MaxBackupRecords == 2  \* the same, between backups and restores
MaxDay == 2         \* calendar days, numbered from 0

\* ------------------------------------------------------- program constants
MinDuration == 10          \* Math.max(0.1, ...): 0.1 minutes
MinSessions == 1           \* Math.max(1, ...)
TransitionDelay == 500     \* setTimeout(..., 500) of handlePhaseComplete
ResetDelay == 300          \* setTimeout(..., 300) of resetTimer
TickPeriod == 1000         \* setInterval(..., 1000)
NoTime == -1               \* null (sessionStartTime, lastSessionDate)

Phases == {"focus", "break", "longBreak"}

DEFAULT_CONFIG ==
  [focusDuration |-> 20, breakDuration |-> 10, longBreakDuration |-> 15,
   sessionsUntilLongBreak |-> 4]

DEFAULT_STATISTICS ==
  [totalFocusTime |-> 0, totalBreakTime |-> 0, completedSessions |-> 0,
   dailyStreak |-> 0, lastSessionDate |-> NoTime]

Max(a, b) == IF a >= b THEN a ELSE b

\* Math.round(minutes * 60) for minutes = d / 100: round half up.
Seconds(d) == (d * 60 + 50) \div 100

VARIABLES
  state,              \* TimerState: isRunning, isPaused, currentPhase, timeRemaining, completedSessions
  config,             \* the component's TimerConfig
  stats,              \* the component's copy of the statistics
  isTransitioning,
  soundsInitialized,
  sessionStartTime,   \* NoTime or the day the session started
  timeouts,           \* pending setTimeout callbacks, oldest first, with what they closed over
  startPending,       \* startTimer calls suspended at await initializeSoundSystem()
  intervals,          \* live setInterval handles
  ls,                 \* the storage module: localStorage and the module's objects
  uuids,              \* ids handed out by crypto.randomUUID()
  today,              \* the current calendar day
  isMuted,            \* the component's mute flag
  mutePending,        \* handleMuteToggle calls suspended at their await, each with the isMuted it closed over
  panel,              \* the settings panel: isOpen, and its own config, preferences and errors
  mountSessions,      \* history: completedSessions when the component was mounted
  focusCompleted,     \* history: focus phases completed by this component
  completions         \* history: phases completed by this component

vars == <<state, config, stats, isTransitioning, soundsInitialized, sessionStartTime,
          timeouts, startPending, intervals, ls, uuids, today, mountSessions, isMuted, mutePending, panel,
          focusCompleted, completions>>

\* ------------------------------------------------------------ storage.ts
\* A JSON object is a function from the keys it has with a value to their
\* values; the keys it has with the value null are the set under the key
\* "null", which the function has only when there are some.  A key whose
\* value is undefined is a key the object does not have.  A lastSessionDate of
\* null is NoTime.
NullKey == "null"

\* The keys of an object whose value is null, and those with another value.
Nulls(object) == IF NullKey \in DOMAIN object THEN object[NullKey] ELSE {}

Valued(object) == DOMAIN object \ {NullKey}

\* The object with the given values and the given keys null.
Object(values, nulls) ==
  IF nulls = {} THEN values
  ELSE [k \in DOMAIN values \cup {NullKey} |-> IF k = NullKey THEN nulls ELSE values[k]]

\* object[key] = value
Put(object, key, value) ==
  Object([k \in Valued(object) \cup {key} |-> IF k = key THEN value ELSE object[k]],
         Nulls(object) \ {key})

\* The number a key's value is in an addition: null counts as 0.
Num(object, key) == IF key \in Valued(object) THEN object[key] ELSE 0

\* object[key] += n
Add(object, key, n) == Put(object, key, Num(object, key) + n)

\* !object[key] is false: the key has a value other than false (and null).
Truthy(object, key) == key \in Valued(object) /\ object[key]

ConfigFields ==
  {"focusDuration", "breakDuration", "longBreakDuration", "sessionsUntilLongBreak"}

DEFAULT_PREFERENCES ==
  [theme |-> "system", notifications |-> TRUE, sound |-> TRUE,
   autoStartBreaks |-> TRUE, autoStartPomodoros |-> FALSE]

\* The storage module is a record: the parsed values under the four keys
\* (config, preferences, sessions, statistics); isClient, whether there is a
\* window; available, whether localStorage can be used (when it cannot, as
\* when there is no window, safeLocalStorage.getItem returns null and setItem
\* and removeItem do nothing); corrupt, the keys whose text
\* is not JSON; defaultStatistics, the module's DEFAULT_STATISTICS object as
\* it is now; and thrown, whether an exception has left a storage function.

\* safeLocalStorage.setItem(key, JSON.stringify(value))
setItem(store, key, value) ==
  IF store.available
    THEN [store EXCEPT ![key] = value, !.corrupt = @ \ {key}]
    ELSE store

\* JSON.parse(safeLocalStorage.getItem(key)) throws: initializeStorage() leaves
\* a key that has text alone, and no getter catches the SyntaxError.
Throws(store, key) == store.available /\ key \in store.corrupt

\* Math.max(0.1, ...) for the durations, Math.max(1, ...) for the sessions
Minimum(field) == IF field = "sessionsUntilLongBreak" THEN MinSessions ELSE MinDuration

\* { ...defaults, ...given }
Merge(defaults, given) ==
  Object([k \in (Valued(defaults) \ Nulls(given)) \cup Valued(given) |->
            IF k \in DOMAIN given THEN given[k] ELSE defaults[k]],
         Nulls(given) \cup (Nulls(defaults) \ Valued(given)))

\* parsedConfig.field ?? DEFAULT_CONFIG.field
OrDefault(parsedConfig, field) ==
  IF field \in Valued(parsedConfig) THEN parsedConfig[field] ELSE DEFAULT_CONFIG[field]

\* getTimerConfig that clamps without filling in the defaults
getTimerConfigNoDefaults(store) ==
  [field \in ConfigFields |->
     IF field \in Valued(store.config)
       THEN Max(Minimum(field), store.config[field])
       ELSE Minimum(field)]

\* getTimerConfig that fills in the defaults without clamping
getTimerConfigNoClamp(store) ==
  [field \in ConfigFields |-> OrDefault(store.config, field)]

\* The getters give the value returned when JSON.parse does not throw (see
\* Throws); without a stored text they return the defaults.
getTimerConfig(store) ==
  IF ~store.available THEN DEFAULT_CONFIG
  ELSE [field \in ConfigFields |-> Max(Minimum(field), OrDefault(store.config, field))]

\* saveTimerConfig: Math.max(0.1, null) is 0.1, and Math.max of a missing field
\* is NaN, which is stored as null.
saveTimerConfig(store, c) ==
  setItem(store, "config",
          Object([field \in ConfigFields \cap (Valued(c) \cup Nulls(c)) |->
                    IF field \in Valued(c) THEN Max(Minimum(field), c[field])
                    ELSE Minimum(field)],
                 ConfigFields \ (Valued(c) \cup Nulls(c))))

getPreferences(store) ==
  IF ~store.available THEN DEFAULT_PREFERENCES
  ELSE Merge(DEFAULT_PREFERENCES, store.preferences)

savePreferences(store, preferences) ==
  setItem(store, "preferences", Merge(DEFAULT_PREFERENCES, preferences))

getSessions(store) == IF ~store.available THEN <<>> ELSE store.sessions

\* getStatistics: without a stored text it returns the DEFAULT_STATISTICS
\* object itself, not a copy.
getStatistics(store) ==
  IF ~store.available THEN store.defaultStatistics
  ELSE Merge(store.defaultStatistics, store.statistics)

\* The streak update of updateStatistics: unchanged on the day of the last
\* session, one more on the day after it, 1 otherwise.
updateStreak(statistics, day, yesterday) ==
  IF statistics.lastSessionDate # NoTime
    THEN IF day = statistics.lastSessionDate THEN statistics
         ELSE IF statistics.lastSessionDate = yesterday
           THEN Add(statistics, "dailyStreak", 1)
         ELSE Put(statistics, "dailyStreak", 1)
    ELSE Put(statistics, "dailyStreak", 1)

\* updateStatistics that counts every session as completed
updateStatisticsCountsAll(store, session, day, yesterday) ==
  LET s0 == getStatistics(store)
      s1 == IF session.phase = "focus"
              THEN Add(s0, "totalFocusTime", session.duration)
              ELSE Add(s0, "totalBreakTime", session.duration)
      s2 == Add(s1, "completedSessions", 1)
  IN [store EXCEPT !.statistics =
        Put(updateStreak(s2, day, yesterday), "lastSessionDate", day)]

\* updateStatistics that assigns the duration to the total (= for +=)
updateStatisticsAssigns(store, session, day, yesterday) ==
  LET s0 == getStatistics(store)
      s1 == IF session.phase = "focus"
              THEN Put(s0, "totalFocusTime", session.duration)
              ELSE Put(s0, "totalBreakTime", session.duration)
      s2 == IF session.completed
              THEN Add(s1, "completedSessions", 1)
              ELSE s1
  IN [store EXCEPT !.statistics =
        Put(updateStreak(s2, day, yesterday), "lastSessionDate", day)]

\* updateStatistics that adds every duration to the focus total
updateStatisticsOneTotal(store, session, day, yesterday) ==
  LET s0 == getStatistics(store)
      s1 == Add(s0, "totalFocusTime", session.duration)
      s2 == IF session.completed
              THEN Add(s1, "completedSessions", 1)
              ELSE s1
  IN [store EXCEPT !.statistics =
        Put(updateStreak(s2, day, yesterday), "lastSessionDate", day)]

\* updateStatistics.  day is the date of new Date().toISOString(), a UTC
\* date; yesterday is the UTC date of the instant setDate(getDate() - 1)
\* gives, which is one day back on the local calendar at the same local time.
\* The assignments change the object getStatistics() returned: a copy when
\* there is a stored text, the DEFAULT_STATISTICS object when there is none.
updateStatistics(store, session, day, yesterday) ==
  IF Throws(store, "statistics") THEN [store EXCEPT !.thrown = TRUE]
  ELSE
  LET s0 == getStatistics(store)
      s1 == IF session.phase = "focus"
              THEN Add(s0, "totalFocusTime", session.duration)
              ELSE Add(s0, "totalBreakTime", session.duration)
      s2 == IF session.completed
              THEN Add(s1, "completedSessions", 1)
              ELSE s1
      s3 == Put(updateStreak(s2, day, yesterday), "lastSessionDate", day)
  IN IF store.available
       THEN setItem(store, "statistics", s3)
       ELSE [store EXCEPT !.defaultStatistics = s3]

\* saveSession: getSessions() throws on a corrupt history before anything is
\* written.
saveSession(store, session, id, day, yesterday) ==
  IF Throws(store, "sessions") THEN [store EXCEPT !.thrown = TRUE]
  ELSE
  LET newSession == [id |-> id, startTime |-> session.startTime,
                     endTime |-> session.endTime, phase |-> session.phase,
                     completed |-> session.completed, duration |-> session.duration]
      pushed == setItem(store, "sessions", Append(getSessions(store), newSession))
  IN updateStatistics(pushed, session, day, yesterday)

\* initializeStorage() on cleared storage, when the module is loaded
InitialStorage ==
  [config |-> DEFAULT_CONFIG, preferences |-> DEFAULT_PREFERENCES,
   sessions |-> <<>>, statistics |-> DEFAULT_STATISTICS,
   isClient |-> TRUE, available |-> TRUE, corrupt |-> {},
   defaultStatistics |-> DEFAULT_STATISTICS, thrown |-> FALSE]

\* clearAllData: every key is removed and initializeStorage() writes the defaults
clearAllData(store) ==
  IF ~store.available THEN store
  ELSE [store EXCEPT !.config = DEFAULT_CONFIG,
                     !.preferences = DEFAULT_PREFERENCES,
                     !.sessions = <<>>,
                     !.statistics = store.defaultStatistics,
                     !.corrupt = {}]

\* A backup blob is what JSON.parse makes of it: "malformed" when it throws,
\* "null" when it gives null, otherwise "object" with data, the function from
\* the sections present (and truthy) to their values.
exportData(store) ==
  [json |-> "object",
   data |-> [preferences |-> getPreferences(store),
             timerConfig |-> getTimerConfig(store),
             sessions |-> getSessions(store),
             statistics |-> getStatistics(store)]]

\* importData that adds the imported sessions to the history
importDataAppends(store, jsonData) ==
  IF ~store.isClient \/ jsonData.json # "object"
    THEN [ok |-> FALSE, store |-> store]
    ELSE LET data == jsonData.data
             s1 == IF "preferences" \in DOMAIN data
                     THEN savePreferences(store, data.preferences) ELSE store
             s2 == IF "timerConfig" \in DOMAIN data
                     THEN saveTimerConfig(s1, data.timerConfig) ELSE s1
             s3 == IF "sessions" \in DOMAIN data
                     THEN [s2 EXCEPT !.sessions = @ \o data.sessions] ELSE s2
             s4 == IF "statistics" \in DOMAIN data
                     THEN [s3 EXCEPT !.statistics = data.statistics] ELSE s3
         IN [ok |-> TRUE, store |-> s4]

\* importData that writes the sections before it knows the blob is sound
importDataNoCatch(store, jsonData) ==
  IF ~store.isClient \/ jsonData.json # "object"
    THEN [ok |-> FALSE, store |-> clearAllData(store)]
    ELSE LET data == jsonData.data
             s1 == IF "preferences" \in DOMAIN data
                     THEN savePreferences(store, data.preferences) ELSE store
             s2 == IF "timerConfig" \in DOMAIN data
                     THEN saveTimerConfig(s1, data.timerConfig) ELSE s1
             s3 == IF "sessions" \in DOMAIN data
                     THEN [s2 EXCEPT !.sessions = data.sessions] ELSE s2
             s4 == IF "statistics" \in DOMAIN data
                     THEN [s3 EXCEPT !.statistics = data.statistics] ELSE s3
         IN [ok |-> TRUE, store |-> s4]

\* importData: its result and the store after it.  Without a window it
\* returns false at once; JSON.parse of a malformed blob and data.preferences
\* of null both throw before anything is written.
importData(store, jsonData) ==
  IF ~store.isClient \/ jsonData.json # "object"
    THEN [ok |-> FALSE, store |-> store]
    ELSE LET data == jsonData.data
             s1 == IF "preferences" \in DOMAIN data
                     THEN savePreferences(store, data.preferences) ELSE store
             s2 == IF "timerConfig" \in DOMAIN data
                     THEN saveTimerConfig(s1, data.timerConfig) ELSE s1
             s3 == IF "sessions" \in DOMAIN data
                     THEN setItem(s2, "sessions", data.sessions) ELSE s2
             s4 == IF "statistics" \in DOMAIN data
                     THEN setItem(s3, "statistics", data.statistics) ELSE s3
         IN [ok |-> TRUE, store |-> s4]

\* --------------------------------------------------------------- Timer.tsx
getCurrentPhaseDuration(cfg, phase) ==
  CASE phase = "focus" -> cfg.focusDuration
    [] phase = "break" -> cfg.breakDuration
    [] phase = "longBreak" -> cfg.longBreakDuration
    [] OTHER -> cfg.focusDuration

\* getProgress without the clamp to [0, 100].
getProgressNoClamp(st, cfg) ==
  LET totalSeconds == Seconds(getCurrentPhaseDuration(cfg, st.currentPhase))
  IN [num |-> 100 * (totalSeconds - st.timeRemaining), den |-> totalSeconds]

\* getProgress as the exact fraction num / den of its floating-point value:
\* den is totalSeconds, and the clamp to [0, 100] is taken on the numerator.
\* The value is defined (not NaN) when den is not 0.
getProgress(st, cfg) ==
  LET totalSeconds == Seconds(getCurrentPhaseDuration(cfg, st.currentPhase))
      progress == 100 * (totalSeconds - st.timeRemaining)
      floor == IF progress > 0 THEN progress ELSE 0
  IN [num |-> IF floor < 100 * totalSeconds THEN floor ELSE 100 * totalSeconds,
      den |-> totalSeconds]

\* nextPhase with the session just completed left out of the count
NextPhaseStaleCount(phase, completed, cfg) ==
  IF phase = "focus"
    THEN IF completed % cfg.sessionsUntilLongBreak = 0 THEN "longBreak" ELSE "break"
    ELSE "focus"

\* nextPhase of handlePhaseComplete
NextPhase(phase, completed, cfg) ==
  IF phase = "focus"
    THEN IF (completed + 1) % cfg.sessionsUntilLongBreak = 0 THEN "longBreak" ELSE "break"
    ELSE "focus"

\* nextSessionCount of handlePhaseComplete
NextSessionCount(phase, completed) ==
  IF phase = "focus" THEN completed + 1 ELSE completed

\* The tick effect without its cleanup.
TickEffectNoCleanup(live, st, transitioning) ==
  live + (IF st.isRunning /\ ~st.isPaused /\ ~transitioning THEN 1 ELSE 0)

\* The tick effect: its cleanup clears the interval the previous run set, then
\* a new interval is set when the timer is running, not paused, not transitioning.
TickEffect(live, st, transitioning) ==
  (IF live > 0 THEN live - 1 ELSE 0)
    + (IF st.isRunning /\ ~st.isPaused /\ ~transitioning THEN 1 ELSE 0)

\* The storage an earlier timer instance leaves after completing n phases of
\* the cycle with the default configuration on day 0.
RECURSIVE PriorRun(_)
PriorRun(n) ==
  IF n = 0 THEN InitialStorage
  ELSE LET before == PriorRun(n - 1)
           phase == IF n % 2 = 1 THEN "focus"
                    ELSE NextPhase("focus", (n \div 2) - 1, DEFAULT_CONFIG)
           session == [startTime |-> 0, endTime |-> 0, phase |-> phase,
                       completed |-> TRUE,
                       duration |-> Seconds(getCurrentPhaseDuration(DEFAULT_CONFIG, phase))]
       IN saveSession(before, session, n - 1, 0, -1)

\* The component after its first render on the given store.
TimerMounted(store) ==
  /\ config = getTimerConfig(store)
  /\ stats = getStatistics(store)
  /\ state = [isRunning |-> FALSE, isPaused |-> FALSE, currentPhase |-> "focus",
              timeRemaining |-> Seconds(getTimerConfig(store).focusDuration),
              completedSessions |-> getStatistics(store).completedSessions]
  /\ isTransitioning = FALSE
  /\ soundsInitialized = FALSE
  /\ sessionStartTime = NoTime
  /\ timeouts = <<>>
  /\ startPending = 0
  /\ intervals = 0
  /\ isMuted = ~Truthy(getPreferences(store), "sound")
  /\ mutePending = <<>>
  /\ panel = [isOpen |-> FALSE, config |-> getTimerConfig(store),
              preferences |-> getPreferences(store), errors |-> {}]
  /\ mountSessions = getStatistics(store).completedSessions
  /\ focusCompleted = 0
  /\ completions = 0

\* The timer mounted on cleared storage.
Init ==
  /\ ls = InitialStorage
  /\ uuids = 0
  /\ today = 0
  /\ TimerMounted(ls)

\* The sessions recorded by earlier timer instances: none, or as many as
\* make the next focus phase the one before a long break.
PriorSessions == {0, DEFAULT_CONFIG.sessionsUntilLongBreak - 1}

\* The sessions until a long break as saved by an earlier timer instance.
PriorSettings == {MinSessions, DEFAULT_CONFIG.sessionsUntilLongBreak}

\* The timer mounted on what earlier timer instances left.
InitCycle ==
  \E n \in PriorSessions, sessions \in PriorSettings :
    /\ ls = [PriorRun(n) EXCEPT !.config.sessionsUntilLongBreak = sessions]
    /\ uuids = n
    /\ today = 0
    /\ TimerMounted(ls)

\* ---------------------------------------------------------------- actions
\* A timeout set later fires before one set earlier only if its delay is shorter.
Delay(t) == IF t.kind = "phase" THEN TransitionDelay ELSE ResetDelay

CanFire(i) == \A j \in 1..(i - 1) : Delay(timeouts[j]) > Delay(timeouts[i])

Remove(seq, i) == SubSeq(seq, 1, i - 1) \o SubSeq(seq, i + 1, Len(seq))

\* saveCompletedSession that takes the focus duration for every phase.
saveCompletedSessionFocusLength ==
  IF sessionStartTime = NoTime
    THEN /\ UNCHANGED <<ls, uuids, stats>>
         /\ state' = state
    ELSE LET session == [startTime |-> sessionStartTime, endTime |-> today,
                         phase |-> state.currentPhase, completed |-> TRUE,
                         duration |-> Seconds(config.focusDuration)]
         IN /\ ls' = saveSession(ls, session, uuids, today, today - 1)
            /\ uuids' = uuids + 1
            /\ stats' = getStatistics(ls')
            /\ \E applied \in BOOLEAN :
                 state' = IF applied
                            THEN [state EXCEPT !.completedSessions =
                                                  getStatistics(ls').completedSessions]
                            ELSE state

\* saveCompletedSession, called by handlePhaseComplete: the store, the ids, the
\* statistics copy and the session counter of the state after it.  It has no
\* try/catch: when saveSession throws, setStats and setState are not reached.
\* Its setState is called inside the updater of the interval callback, which
\* returns prev: React applies it after that updater when it runs the updater
\* in the render, and before the returned prev, which then stands, when it
\* has run the updater inside the interval's setState.  Either order happens.
saveCompletedSession ==
  IF sessionStartTime = NoTime
    THEN /\ UNCHANGED <<ls, uuids, stats>>
         /\ state' = state
    ELSE LET session == [startTime |-> sessionStartTime, endTime |-> today,
                         phase |-> state.currentPhase, completed |-> TRUE,
                         duration |->
                           Seconds(getCurrentPhaseDuration(config, state.currentPhase))]
         IN /\ ls' = saveSession(ls, session, uuids, today, today - 1)
            /\ uuids' = IF Throws(ls, "sessions") THEN uuids ELSE uuids + 1
            /\ IF ls'.thrown
                 THEN /\ stats' = stats
                      /\ state' = state
                 ELSE /\ stats' = getStatistics(ls')
                      /\ \E applied \in BOOLEAN :
                           state' = IF applied
                                      THEN [state EXCEPT !.completedSessions =
                                                            getStatistics(ls').completedSessions]
                                      ELSE state

\* handlePhaseComplete, called from the interval callback, which has cleared
\* its interval; the timeout it sets closes over nextPhase, nextSessionCount
\* and the configuration of this render.  It has no try/catch either: when
\* saveCompletedSession throws, no timeout is set, the exception leaves the
\* state updater, and the render that fails on it unmounts the component.
handlePhaseComplete(limit) ==
  /\ completions < limit
  /\ isTransitioning' = TRUE
  /\ saveCompletedSession
  /\ IF ls'.thrown
       THEN /\ intervals' = 0
            /\ UNCHANGED <<timeouts, focusCompleted, completions>>
       ELSE /\ timeouts' = Append(timeouts,
                 [kind |-> "phase",
                  nextPhase |-> NextPhase(state.currentPhase, state.completedSessions, config),
                  nextSessionCount |->
                    NextSessionCount(state.currentPhase, state.completedSessions),
                  config |-> config,
                  phase |-> state.currentPhase])
            /\ focusCompleted' = IF state.currentPhase = "focus" THEN focusCompleted + 1
                                 ELSE focusCompleted
            /\ completions' = completions + 1
            /\ intervals' = TickEffect(intervals - 1, state', isTransitioning')
  /\ UNCHANGED <<config, soundsInitialized, sessionStartTime, startPending, today,
                 mountSessions, isMuted, mutePending, panel>>

\* The interval callback without its test for 0.
TickNoFloor(limit) ==
  /\ intervals > 0
  /\ \A i \in 1..Len(timeouts) : Delay(timeouts[i]) >= TickPeriod
  /\ state' = [state EXCEPT !.timeRemaining = @ - 1]
  /\ intervals' = TickEffect(intervals, state', isTransitioning)
  /\ UNCHANGED <<config, stats, isTransitioning, soundsInitialized, sessionStartTime,
                 timeouts, startPending, ls, uuids, today, mountSessions, isMuted, mutePending, panel,
                 focusCompleted, completions>>

\* The interval callback.  An interval set while a timeout is pending fires
\* only after that timeout, whose delay is shorter than the tick period.
Tick(limit) ==
  /\ intervals > 0
  /\ \A i \in 1..Len(timeouts) : Delay(timeouts[i]) >= TickPeriod
  /\ IF state.timeRemaining <= 0
       THEN handlePhaseComplete(limit)
       ELSE /\ state' = [state EXCEPT !.timeRemaining = @ - 1]
            /\ intervals' = TickEffect(intervals, state', isTransitioning)
            /\ UNCHANGED <<config, stats, isTransitioning, soundsInitialized,
                           sessionStartTime, timeouts, startPending, ls, uuids, today,
                           mountSessions, isMuted, mutePending, panel, focusCompleted, completions>>

\* The callback of handlePhaseComplete's setTimeout, leaving the session start
\* of an auto-started phase as it is.
PhaseTimeoutNoStartTime(i) ==
  LET t == timeouts[i]
  IN /\ t.kind = "phase"
     /\ CanFire(i)
     /\ state' = [state EXCEPT
                    !.isRunning = (t.nextPhase # "focus"),
                    !.currentPhase = t.nextPhase,
                    !.timeRemaining = Seconds(getCurrentPhaseDuration(t.config, t.nextPhase)),
                    !.completedSessions = t.nextSessionCount]
     /\ isTransitioning' = FALSE
     /\ timeouts' = Remove(timeouts, i)
     /\ intervals' = TickEffect(intervals, state', isTransitioning')
     /\ UNCHANGED <<config, stats, soundsInitialized, sessionStartTime, startPending, ls,
                    uuids, today, mountSessions, isMuted, mutePending, panel, focusCompleted, completions>>

\* The callback of handlePhaseComplete's setTimeout, starting every phase.
PhaseTimeoutAutoStartsAll(i) ==
  LET t == timeouts[i]
  IN /\ t.kind = "phase"
     /\ CanFire(i)
     /\ state' = [state EXCEPT
                    !.isRunning = TRUE,
                    !.currentPhase = t.nextPhase,
                    !.timeRemaining = Seconds(getCurrentPhaseDuration(t.config, t.nextPhase)),
                    !.completedSessions = t.nextSessionCount]
     /\ isTransitioning' = FALSE
     /\ sessionStartTime' = IF t.nextPhase # "focus" THEN today ELSE sessionStartTime
     /\ timeouts' = Remove(timeouts, i)
     /\ intervals' = TickEffect(intervals, state', isTransitioning')
     /\ UNCHANGED <<config, stats, soundsInitialized, startPending, ls, uuids, today,
                    mountSessions, isMuted, mutePending, panel, focusCompleted, completions>>

\* The callback of handlePhaseComplete's setTimeout.
PhaseTimeout(i) ==
  LET t == timeouts[i]
  IN /\ t.kind = "phase"
     /\ CanFire(i)
     /\ state' = [state EXCEPT
                    !.isRunning = (t.nextPhase # "focus"),
                    !.currentPhase = t.nextPhase,
                    !.timeRemaining = Seconds(getCurrentPhaseDuration(t.config, t.nextPhase)),
                    !.completedSessions = t.nextSessionCount]
     /\ isTransitioning' = FALSE
     /\ sessionStartTime' = IF t.nextPhase # "focus" THEN today ELSE sessionStartTime
     /\ timeouts' = Remove(timeouts, i)
     /\ intervals' = TickEffect(intervals, state', isTransitioning')
     /\ UNCHANGED <<config, stats, soundsInitialized, startPending, ls, uuids, today,
                    mountSessions, isMuted, mutePending, panel, focusCompleted, completions>>

\* startTimer that leaves the paused flag as it is.
startTimerKeepsPause ==
  /\ sessionStartTime' = today
  /\ state' = [state EXCEPT !.isRunning = TRUE]
  /\ intervals' = TickEffect(intervals, state', isTransitioning)
  /\ UNCHANGED <<config, stats, isTransitioning, timeouts, ls, uuids, today,
                 mountSessions, isMuted, mutePending, panel, focusCompleted, completions>>

\* startTimer after its await.
startTimer ==
  /\ sessionStartTime' = today
  /\ state' = [state EXCEPT !.isRunning = TRUE, !.isPaused = FALSE]
  /\ intervals' = TickEffect(intervals, state', isTransitioning)
  /\ UNCHANGED <<config, stats, isTransitioning, timeouts, ls, uuids, today,
                 mountSessions, isMuted, mutePending, panel, focusCompleted, completions>>

\* The Start button, rendered when the timer is not running.  With the sounds
\* initialized the await resumes before any other event; otherwise the call
\* is suspended until initializeSounds() settles.
StartClick ==
  /\ ~state.isRunning
  /\ IF soundsInitialized
       THEN startTimer /\ UNCHANGED <<soundsInitialized, startPending>>
       ELSE /\ Len(timeouts) + startPending + Len(mutePending) < MaxCallbacks
            /\ startPending' = startPending + 1
            /\ UNCHANGED <<state, config, stats, isTransitioning, soundsInitialized,
                           sessionStartTime, timeouts, intervals, ls, uuids, today,
                           mountSessions, isMuted, mutePending, panel, focusCompleted, completions>>

\* The component is mounted: no render has failed.  The state setters of an
\* unmounted component do nothing.
Mounted == ~ls.thrown

\* initializeSounds() settles (success is false when it throws) and startTimer
\* goes on.
StartResume ==
  /\ startPending > 0
  /\ startPending' = startPending - 1
  /\ IF Mounted
       THEN /\ \E success \in BOOLEAN : soundsInitialized' = success
            /\ startTimer
       ELSE UNCHANGED <<state, config, stats, isTransitioning, soundsInitialized,
                        sessionStartTime, timeouts, intervals, ls, uuids, today,
                        mountSessions, isMuted, mutePending, panel, focusCompleted,
                        completions>>

\* pauseTimer
pauseTimer ==
  /\ state' = [state EXCEPT !.isPaused = TRUE]
  /\ intervals' = TickEffect(intervals, state', isTransitioning)
  /\ UNCHANGED <<config, stats, isTransitioning, soundsInitialized, sessionStartTime,
                 timeouts, startPending, ls, uuids, today, mountSessions, isMuted, mutePending, panel, focusCompleted, completions>>

\* The Pause / Resume button, rendered when the timer is running.
PauseClick == state.isRunning /\ pauseTimer

\* resetTimer that records the interrupted session as a completed one.
resetTimerRecords ==
  /\ Len(timeouts) + startPending + Len(mutePending) < MaxCallbacks
  /\ isTransitioning' = TRUE
  /\ sessionStartTime' = NoTime
  /\ saveCompletedSession
  /\ timeouts' = Append(timeouts,
       [kind |-> "reset", config |-> config, phase |-> state.currentPhase])
  /\ intervals' = TickEffect(intervals, state', isTransitioning')
  /\ UNCHANGED <<config, soundsInitialized, startPending, today, mountSessions, isMuted, mutePending, panel,
                 focusCompleted, completions>>

\* resetTimer up to its setTimeout, which closes over this render's
\* configuration and current phase.
resetTimer ==
  /\ Len(timeouts) + startPending + Len(mutePending) < MaxCallbacks
  /\ isTransitioning' = TRUE
  /\ sessionStartTime' = NoTime
  /\ timeouts' = Append(timeouts,
       [kind |-> "reset", config |-> config, phase |-> state.currentPhase])
  /\ intervals' = TickEffect(intervals, state, isTransitioning')
  /\ UNCHANGED <<state, config, stats, soundsInitialized, startPending, ls, uuids, today,
                 mountSessions, isMuted, mutePending, panel, focusCompleted, completions>>

\* The callback of resetTimer's setTimeout.
ResetTimeout(i) ==
  LET t == timeouts[i]
  IN /\ t.kind = "reset"
     /\ CanFire(i)
     /\ state' = [state EXCEPT
                    !.isRunning = FALSE,
                    !.isPaused = FALSE,
                    !.timeRemaining = Seconds(getCurrentPhaseDuration(t.config, t.phase))]
     /\ isTransitioning' = FALSE
     /\ timeouts' = Remove(timeouts, i)
     /\ intervals' = TickEffect(intervals, state', isTransitioning')
     /\ UNCHANGED <<config, stats, soundsInitialized, sessionStartTime, startPending, ls,
                    uuids, today, mountSessions, isMuted, mutePending, panel, focusCompleted, completions>>

\* A pending timeout fires.
FirePhaseTimeout == \E i \in 1..Len(timeouts) : PhaseTimeout(i)

FireResetTimeout == \E i \in 1..Len(timeouts) : ResetTimeout(i)

\* handleSettingsChange that recomputes the time remaining whatever the state.
handleSettingsChangeAlways ==
  /\ config' = getTimerConfig(ls')
  /\ state' = [state EXCEPT !.timeRemaining = Seconds(getTimerConfig(ls').focusDuration)]
  /\ isMuted' = ~Truthy(getPreferences(ls'), "sound")
  /\ intervals' = TickEffect(intervals, state', isTransitioning)
  /\ UNCHANGED <<stats, isTransitioning, soundsInitialized, sessionStartTime, timeouts,
                 startPending, uuids, today, mountSessions, mutePending, focusCompleted, completions>>

\* handleSettingsChange, called by the settings panel after it has written ls'.
handleSettingsChange ==
  /\ config' = getTimerConfig(ls')
  /\ state' = IF ~state.isRunning
                THEN [state EXCEPT !.timeRemaining = Seconds(getTimerConfig(ls').focusDuration)]
                ELSE state
  /\ isMuted' = ~Truthy(getPreferences(ls'), "sound")
  /\ intervals' = TickEffect(intervals, state', isTransitioning)
  /\ UNCHANGED <<stats, isTransitioning, soundsInitialized, sessionStartTime, timeouts,
                 startPending, uuids, today, mountSessions, mutePending, focusCompleted, completions>>

\* The settings panel is a modal over the timer, which stays mounted while it
\* is closed: it keeps its own copies of the configuration and of the
\* preferences, loaded from the store each time it is opened, and its errors.
\* The Settings button: the effect on isOpen loads the panel's copies.
OpenSettings ==
  /\ ~panel.isOpen
  /\ panel' = [panel EXCEPT !.isOpen = TRUE,
                            !.config = getTimerConfig(ls),
                            !.preferences = getPreferences(ls)]
  /\ UNCHANGED <<state, config, stats, isTransitioning, soundsInitialized,
                 sessionStartTime, timeouts, startPending, intervals, ls, uuids,
                 today, isMuted, mutePending, mountSessions, focusCompleted,
                 completions>>

\* onClose of the modal: its close and Cancel buttons, its backdrop, Escape.
CloseSettings ==
  /\ panel.isOpen
  /\ panel' = [panel EXCEPT !.isOpen = FALSE]
  /\ UNCHANGED <<state, config, stats, isTransitioning, soundsInitialized,
                 sessionStartTime, timeouts, startPending, intervals, ls, uuids,
                 today, isMuted, mutePending, mountSessions, focusCompleted,
                 completions>>

\* What the user types in a field of the settings panel: a field and a value.
SettingsInputs == {<<"focusDuration", 0>>, <<"focusDuration", 5>>}

\* handleDurationChange of the settings panel: a value > 0 is saved with the
\* panel's configuration and the timer is told; a value <= 0 puts the field
\* in error.
handleDurationChange(field, numValue) ==
  IF numValue > 0
    THEN /\ ls' = saveTimerConfig(ls, Put(panel.config, field, numValue))
         /\ panel' = [panel EXCEPT !.config = getTimerConfig(ls'),
                                   !.errors = @ \ {field}]
         /\ handleSettingsChange
    ELSE /\ panel' = [panel EXCEPT !.errors = @ \cup {field}]
         /\ UNCHANGED <<state, config, stats, isTransitioning, soundsInitialized,
                        sessionStartTime, timeouts, startPending, intervals, ls, uuids,
                        today, isMuted, mutePending, mountSessions, focusCompleted,
                        completions>>

\* The user edits a field of the open settings panel.
EditSetting ==
  /\ panel.isOpen
  /\ \E in \in SettingsInputs : handleDurationChange(in[1], in[2])

\* onBlur of a field of the settings panel
BlurSetting ==
  /\ panel.isOpen
  /\ panel' = [panel EXCEPT !.config = getTimerConfig(ls)]
  /\ UNCHANGED <<state, config, stats, isTransitioning, soundsInitialized,
                 sessionStartTime, timeouts, startPending, intervals, ls, uuids,
                 today, isMuted, mutePending, mountSessions, focusCompleted,
                 completions>>

\* What the user chooses in the settings panel: a preference and a value.
PanelPreferences == {<<"sound", FALSE>>, <<"sound", TRUE>>}

\* handlePreferenceChange of the settings panel.
handlePreferenceChange(field, value) ==
  LET newPreferences == Put(panel.preferences, field, value)
  IN /\ panel' = [panel EXCEPT !.preferences = newPreferences]
     /\ ls' = savePreferences(ls, newPreferences)
     /\ handleSettingsChange

\* The user changes a preference in the open settings panel.
EditPreference ==
  /\ panel.isOpen
  /\ \E in \in PanelPreferences : handlePreferenceChange(in[1], in[2])

\* handleSave of the settings panel (Save Changes): nothing with a field in
\* error, else the panel's configuration and preferences are saved once more
\* and the panel is closed.
handleSave ==
  /\ panel.isOpen
  /\ panel.errors = {}
  /\ ls' = savePreferences(saveTimerConfig(ls, panel.config), panel.preferences)
  /\ panel' = [panel EXCEPT !.isOpen = FALSE]
  /\ handleSettingsChange

\* handleMuteToggle after its await: muted is the isMuted of the render whose
\* Mute button was clicked.
muteToggle(muted) ==
  /\ isMuted' = IF Mounted THEN ~muted ELSE isMuted
  /\ ls' = savePreferences(ls, Put(getPreferences(ls), "sound", muted))
  /\ UNCHANGED <<state, config, stats, isTransitioning, sessionStartTime, timeouts,
                 startPending, intervals, uuids, today, panel, mountSessions,
                 focusCompleted, completions>>

\* The Mute button.  With the sounds initialized the await resumes before any
\* other event; otherwise the call is suspended until initializeSounds()
\* settles.
MuteClick ==
  IF soundsInitialized
    THEN muteToggle(isMuted) /\ UNCHANGED <<soundsInitialized, mutePending>>
    ELSE /\ Len(timeouts) + startPending + Len(mutePending) < MaxCallbacks
         /\ mutePending' = Append(mutePending, isMuted)
         /\ UNCHANGED <<state, config, stats, isTransitioning, soundsInitialized,
                        sessionStartTime, timeouts, startPending, intervals, ls, uuids,
                        today, isMuted, panel, mountSessions, focusCompleted,
                        completions>>

\* initializeSounds() settles (success is false when it throws) and
\* handleMuteToggle goes on.
MuteSettle ==
  \E i \in 1..Len(mutePending) :
    /\ IF Mounted
         THEN \E success \in BOOLEAN : soundsInitialized' = success
         ELSE soundsInitialized' = soundsInitialized
    /\ mutePending' = Remove(mutePending, i)
    /\ muteToggle(mutePending[i])

Next ==
  \/ StartClick
  \/ StartResume
  \/ PauseClick
  \/ resetTimer
  \/ Tick(MaxCompletions)
  \/ FirePhaseTimeout
  \/ FireResetTimeout
  \/ OpenSettings
  \/ CloseSettings
  \/ EditSetting
  \/ BlurSetting
  \/ EditPreference
  \/ handleSave
  \/ MuteClick
  \/ MuteSettle

Spec == Init /\ [][Next]_vars

\* The timer on what earlier instances left, with the fields of its settings
\* panel left alone, over long enough a run for the cycle of phases to repeat.
NextCycle ==
  \/ StartClick
  \/ StartResume
  \/ PauseClick
  \/ resetTimer
  \/ Tick(MaxCycle)
  \/ FirePhaseTimeout
  \/ FireResetTimeout
  \/ OpenSettings
  \/ CloseSettings
  \/ handleSave
  \/ MuteClick
  \/ MuteSettle

SpecCycle == InitCycle /\ [][NextCycle]_vars

\* ------------------------------------------------- the store on its own
\* The variables of the timer component.
timerVars == <<state, config, stats, isTransitioning, soundsInitialized, sessionStartTime,
               timeouts, startPending, intervals, mountSessions, isMuted, mutePending, panel, focusCompleted,
               completions>>

\* The timer component as mounted on cleared storage and left alone.
TimerAtRest ==
  /\ config = DEFAULT_CONFIG
  /\ stats = DEFAULT_STATISTICS
  /\ state = [isRunning |-> FALSE, isPaused |-> FALSE, currentPhase |-> "focus",
              timeRemaining |-> Seconds(DEFAULT_CONFIG.focusDuration),
              completedSessions |-> 0]
  /\ isTransitioning = FALSE
  /\ soundsInitialized = FALSE
  /\ sessionStartTime = NoTime
  /\ timeouts = <<>>
  /\ startPending = 0
  /\ intervals = 0
  /\ isMuted = ~DEFAULT_PREFERENCES.sound
  /\ mutePending = <<>>
  /\ panel = [isOpen |-> FALSE, config |-> DEFAULT_CONFIG,
              preferences |-> DEFAULT_PREFERENCES, errors |-> {}]
  /\ mountSessions = 0
  /\ focusCompleted = 0
  /\ completions = 0

\* Configurations as a caller may pass them and as localStorage may hold them
\* (written by hand or by another version): any fields, each zero, a number
\* in range or null, and any fields all of them negative.
RawValues == {0, 30}

NegativeValue == -5

ConfigInputs ==
  UNION {{Object(values, nulls) : values \in [fields -> RawValues]} :
           <<fields, nulls>> \in {p \in (SUBSET ConfigFields) \X (SUBSET ConfigFields) :
                                    p[1] \cap p[2] = {}}}
  \cup {[field \in fields |-> NegativeValue] : fields \in SUBSET ConfigFields}

\* The configurations found in the store at the start: written by hand or by
\* another version, with any of three fields missing, null or out of range.
PersistedFields == {"focusDuration", "longBreakDuration", "sessionsUntilLongBreak"}

PersistedConfigs == {c \in ConfigInputs : Valued(c) \cup Nulls(c) \subseteq PersistedFields}

InitConfig ==
  /\ TimerAtRest
  /\ uuids = 0
  /\ today = 0
  /\ \E persisted \in PersistedConfigs : ls = [InitialStorage EXCEPT !.config = persisted]

\* A caller saves a configuration.
setConfig(c) ==
  /\ ls' = saveTimerConfig(ls, c)
  /\ UNCHANGED <<timerVars, uuids, today>>

SetConfig == \E c \in ConfigInputs : setConfig(c)

NextConfig == SetConfig

SpecConfig == InitConfig /\ [][NextConfig]_vars

\* The UTC dates toISOString() can give for the instant one day back on the
\* local calendar: the day before, and the days next to it when the local
\* day that ends now was 23 or 25 hours long.
YesterdayDates(day) == {day - 2, day - 1, day}

SessionInputs ==
  {<<"focus", TRUE>>, <<"focus", FALSE>>, <<"break", TRUE>>, <<"longBreak", FALSE>>}

\* A caller records a session of the given phase.
recordSession(phase, completed, yesterday) ==
  /\ uuids < MaxRecords
  /\ LET session == [startTime |-> today, endTime |-> today, phase |-> phase,
                     completed |-> completed,
                     duration |->
                       Seconds(getCurrentPhaseDuration(getTimerConfig(ls), phase))]
     IN ls' = saveSession(ls, session, uuids, today, yesterday)
  /\ uuids' = IF Throws(ls, "sessions") THEN uuids ELSE uuids + 1
  /\ UNCHANGED <<timerVars, today>>

RecordSession ==
  \E in \in SessionInputs, yesterday \in YesterdayDates(today) :
    recordSession(in[1], in[2], yesterday)

\* The calendar date changes (midnight passes, or the clock is set).
ClockChanges ==
  /\ \E day \in 0..MaxDay : day # today /\ today' = day
  /\ UNCHANGED <<timerVars, ls, uuids>>

PreferenceInputs == {[theme |-> "dark"]}

SavePreferences ==
  /\ \E preferences \in PreferenceInputs : ls' = savePreferences(ls, preferences)
  /\ UNCHANGED <<timerVars, uuids, today>>

ClearAll ==
  /\ ls' = clearAllData(ls)
  /\ UNCHANGED <<timerVars, uuids, today>>

\* Backup blobs handed to importData.
EmptyObject == [section \in {} |-> 0]

ImportedId == 100

BackupBlobs ==
  {[json |-> "malformed", data |-> EmptyObject],
   [json |-> "null", data |-> EmptyObject],
   [json |-> "object", data |-> EmptyObject],
   [json |-> "object",
    data |-> [preferences |-> Object([sound |-> FALSE], {"notifications"})]],
   [json |-> "object",
    data |-> [timerConfig |-> Object([focusDuration |-> 0, breakDuration |-> 30],
                                     {"longBreakDuration"})]],
   [json |-> "object",
    data |-> [sessions |-> <<[id |-> ImportedId, startTime |-> 0, endTime |-> 0,
                              phase |-> "focus", completed |-> TRUE, duration |-> 12]>>]],
   [json |-> "object",
    data |-> [statistics |-> Object([completedSessions |-> 5, dailyStreak |-> 2,
                                     lastSessionDate |-> 0],
                                    {"totalFocusTime"})]]}

importBlob(jsonData) ==
  /\ ls' = importData(ls, jsonData).store
  /\ UNCHANGED <<timerVars, uuids, today>>

Import == \E jsonData \in BackupBlobs : importBlob(jsonData)

\* importData(exportData())
RoundTrip ==
  /\ ls' = importData(ls, exportData(ls)).store
  /\ UNCHANGED <<timerVars, uuids, today>>

InitStore ==
  /\ TimerAtRest
  /\ uuids = 0
  /\ today = 0
  /\ ls = InitialStorage

\* The session history and the statistics over the days.
NextStore ==
  \/ RecordSession
  \/ ClockChanges
  \/ ClearAll

SpecStore == InitStore /\ [][NextStore]_vars

\* The same on a store whose session history may be corrupt (text that is not
\* JSON under the sessions key).
InitCorruptStore ==
  /\ TimerAtRest
  /\ uuids = 0
  /\ today = 0
  /\ \E corrupt \in SUBSET {"sessions"} : ls = [InitialStorage EXCEPT !.corrupt = corrupt]

SpecCorruptStore == InitCorruptStore /\ [][NextStore]_vars

\* Sessions recorded between backups.
RecordBackup == uuids < MaxBackupRecords /\ RecordSession

\* The four sections under backup and restore, within one day.
NextBackup ==
  \/ RecordBackup
  \/ SavePreferences
  \/ ClearAll
  \/ Import
  \/ RoundTrip

SpecBackup == InitStore /\ [][NextBackup]_vars

\* The timer mounted on a store whose session history may be corrupt (text
\* that is not JSON under the sessions key); an exception that leaves the
\* state updater ends the component.
InitCorrupt ==
  \E corrupt \in SUBSET {"sessions"} :
    /\ ls = [InitialStorage EXCEPT !.corrupt = corrupt]
    /\ uuids = 0
    /\ today = 0
    /\ TimerMounted(ls)

NextCorrupt ==
  \/ Mounted /\ StartClick
  \/ StartResume
  \/ Mounted /\ PauseClick
  \/ Mounted /\ resetTimer
  \/ Mounted /\ Tick(MaxCompletions)
  \/ Mounted /\ FirePhaseTimeout
  \/ Mounted /\ FireResetTimeout
  \/ Mounted /\ OpenSettings
  \/ Mounted /\ CloseSettings
  \/ Mounted /\ EditSetting
  \/ Mounted /\ BlurSetting
  \/ Mounted /\ EditPreference
  \/ Mounted /\ handleSave
  \/ Mounted /\ MuteClick
  \/ MuteSettle

SpecCorrupt == InitCorrupt /\ [][NextCorrupt]_vars

\* The store where localStorage cannot be used: in a browser where every
\* access throws inside safeLocalStorage, or without a window.
InitUnavailable ==
  /\ TimerAtRest
  /\ uuids = 0
  /\ today = 0
  /\ \E isClient \in BOOLEAN :
       ls = [InitialStorage EXCEPT !.available = FALSE, !.isClient = isClient]

NextUnavailable ==
  \/ RecordSession
  \/ ClockChanges
  \/ SetConfig
  \/ SavePreferences
  \/ ClearAll
  \/ Import

SpecUnavailable == InitUnavailable /\ [][NextUnavailable]_vars

\* ------------------------------------------------------------------ claims
\* The timeout set last.
LastTimeout(seq) == seq[Len(seq)]

\* A step in which a phase completes (handlePhaseComplete runs).
PhaseCompletes == completions' # completions

\* C1: when a phase completes, the next phase is longBreak after a focus phase
\* that makes the session count a multiple of sessionsUntilLongBreak, break
\* after any other focus phase, and focus after break or longBreak.
C1_NextPhaseRule ==
  [][PhaseCompletes =>
       /\ LastTimeout(timeouts').kind = "phase"
       /\ LastTimeout(timeouts').nextPhase =
            (IF state.currentPhase \in {"break", "longBreak"} THEN "focus"
             ELSE IF \E m \in 1..(state.completedSessions + 1) :
                       m * config.sessionsUntilLongBreak = state.completedSessions + 1
                    THEN "longBreak"
                    ELSE "break")]_vars

\* C1 witness: a focus phase has completed with sessionsUntilLongBreak = 4 and
\* the long break is about to be entered.
C1_Witness ==
  /\ timeouts # <<>>
  /\ timeouts[1].kind = "phase"
  /\ timeouts[1].phase = "focus"
  /\ timeouts[1].nextPhase = "longBreak"
  /\ timeouts[1].config.sessionsUntilLongBreak = 4

\* C2 as stated: with sessionsUntilLongBreak = 4 the k-th focus completion of
\* any timer instance enters longBreak when k is a multiple of 4 and break
\* otherwise.
C2_CycleFromZero ==
  [][(focusCompleted' # focusCompleted /\ config.sessionsUntilLongBreak = 4) =>
       LastTimeout(timeouts').nextPhase =
         (IF focusCompleted' % 4 = 0 THEN "longBreak" ELSE "break")]_vars

InPhaseWindow(seq) == \E i \in 1..Len(seq) : seq[i].kind = "phase"

Idle(st) == ~st.isRunning /\ ~st.isPaused
Running(st) == st.isRunning /\ ~st.isPaused
Paused(st) == st.isRunning /\ st.isPaused

\* C3 as stated: the session counter of the timer state changes only in the
\* steps of a focus completion (the completion and the timeout that installs
\* the next phase), and then by exactly 1.
C3_CounterOnlyOnFocus ==
  [][state'.completedSessions # state.completedSessions =>
       /\ state'.completedSessions = state.completedSessions + 1
       /\ \/ PhaseCompletes /\ state.currentPhase = "focus"
          \/ \E i \in 1..Len(timeouts) : PhaseTimeout(i) /\ timeouts[i].phase = "focus"]_vars

\* C4 as stated: when the transition delay elapses the next phase is current
\* with its configured duration, a break or long break is running with a new
\* session start, and a focus phase is idle.
C4_PhaseInstalled ==
  [][\A i \in 1..Len(timeouts) :
       PhaseTimeout(i) =>
         LET next == timeouts[i].nextPhase
         IN /\ state'.currentPhase = next
            /\ state'.timeRemaining = Seconds(getCurrentPhaseDuration(config', next))
            /\ state'.isRunning = (next # "focus")
            /\ next # "focus" => Running(state') /\ sessionStartTime' = today
            /\ next = "focus" => Idle(state')]_vars

\* C5: a tick with time remaining takes one second off and completes nothing;
\* a tick at 0 leaves 0, sets exactly one phase timeout, records at most one
\* session and leaves no interval; time remaining is never negative and two
\* phase timeouts are never pending together.
C5_TickOnce ==
  [][/\ Tick(MaxCompletions) =>
          IF state.timeRemaining > 0
            THEN /\ state'.timeRemaining = state.timeRemaining - 1
                 /\ UNCHANGED <<timeouts, ls, completions>>
            ELSE /\ state'.timeRemaining = 0
                 /\ ~InPhaseWindow(timeouts)
                 /\ Len(timeouts') = Len(timeouts) + 1
                 /\ LastTimeout(timeouts').kind = "phase"
                 /\ Len(ls'.sessions) <= Len(ls.sessions) + 1
                 /\ intervals' = 0
     /\ state'.timeRemaining >= 0
     /\ Cardinality({i \in 1..Len(timeouts') : timeouts'[i].kind = "phase"}) <= 1]_vars

\* C5 witness: the countdown has reached 0, the phase has completed once and
\* its session is recorded, and no interval is live.
C5_Witness ==
  /\ state.timeRemaining = 0
  /\ InPhaseWindow(timeouts)
  /\ isTransitioning
  /\ intervals = 0
  /\ Len(ls.sessions) = mountSessions + 1

\* C6 as stated: between a phase completion and the timeout that installs the
\* next phase nothing acts on the timer.
C6_WindowClosed ==
  [][(InPhaseWindow(timeouts) /\ InPhaseWindow(timeouts')) =>
       UNCHANGED <<state, config, sessionStartTime, isTransitioning, timeouts,
                   startPending>>]_vars

\* C7 as stated, for a reset whose timeout is the last to resolve with the
\* settings untouched since the reset: the timer is idle with the full
\* duration of the phase that is then current.
C7_ResetToFullDuration ==
  [][\A i \in 1..Len(timeouts) :
       (ResetTimeout(i) /\ timeouts' = <<>> /\ timeouts[i].config = config) =>
         /\ Idle(state')
         /\ state'.timeRemaining =
              Seconds(getCurrentPhaseDuration(config', state'.currentPhase))]_vars

\* C8: the session history and the persisted statistics change only in a step
\* that completes a phase, and a reset discards the session start.
C8_OnlyCompletionRecords ==
  [][/\ (ls'.sessions # ls.sessions \/ ls'.statistics # ls.statistics) => PhaseCompletes
     /\ resetTimer => sessionStartTime' = NoTime]_vars

\* C8 witness: a focus session that had counted down has been reset and the
\* reset timeout is pending: the session start is discarded, and the history
\* and the statistics hold what they held when the timer was mounted.
C8_Witness ==
  /\ timeouts # <<>>
  /\ LastTimeout(timeouts).kind = "reset"
  /\ state.currentPhase = "focus"
  /\ state.timeRemaining \in 1..(Seconds(config.focusDuration) - 1)
  /\ sessionStartTime = NoTime
  /\ Len(ls.sessions) = mountSessions
  /\ ls.statistics.completedSessions = mountSessions

\* C9: at most one interval is live, and none while the timer is not running,
\* paused or transitioning.
C9_OneTickSource ==
  /\ intervals <= 1
  /\ (~state.isRunning \/ state.isPaused \/ isTransitioning) => intervals = 0

\* C9 witness: the interval of the focus phase was cancelled at the transition
\* and the auto-started break has its own.
C9_Witness ==
  /\ intervals = 1
  /\ state.currentPhase = "break"
  /\ ~isTransitioning

\* C10: startTimer makes the timer running and not paused, records the session
\* start, and leaves phase, time remaining and session counter as they were.
C10_Start ==
  [][(StartResume \/ (StartClick /\ soundsInitialized)) =>
       /\ Running(state')
       /\ sessionStartTime' = today
       /\ sessionStartTime' # NoTime
       /\ state'.currentPhase = state.currentPhase
       /\ state'.timeRemaining = state.timeRemaining
       /\ state'.completedSessions = state.completedSessions]_vars

\* C10 witness: started from idle, the timer runs with the full duration of
\* its phase and a session start.
C10_Witness ==
  /\ Running(state)
  /\ ~isTransitioning
  /\ sessionStartTime = today
  /\ timeouts = <<>>
  /\ state.timeRemaining = Seconds(getCurrentPhaseDuration(config, state.currentPhase))
  /\ state.currentPhase = "focus"

\* C11 as stated: pause issued while Running makes the timer Paused and leaves
\* phase, time remaining, session counter and session start as they were, and
\* the time remaining does not change while the timer stays Paused.
C11_Pause ==
  [][/\ (PauseClick /\ Running(state) /\ ~isTransitioning) =>
          /\ Paused(state')
          /\ state'.currentPhase = state.currentPhase
          /\ state'.timeRemaining = state.timeRemaining
          /\ state'.completedSessions = state.completedSessions
          /\ sessionStartTime' = sessionStartTime
     /\ (Paused(state) /\ Paused(state')) =>
          state'.timeRemaining = state.timeRemaining]_vars

\* A settings change: a step in which the timer takes a new configuration
\* (only handleSettingsChange sets config).
SettingsChange == config' # config

\* C12: a settings change while Idle sets the time remaining to the new focus
\* duration in seconds; while Running or Paused it leaves time remaining,
\* phase and the running and paused flags as they were.
C12_SettingsChange ==
  [][SettingsChange =>
       /\ Idle(state) =>
            state'.timeRemaining = Seconds(config'.focusDuration)
       /\ (Running(state) \/ Paused(state)) =>
            /\ state'.timeRemaining = state.timeRemaining
            /\ state'.currentPhase = state.currentPhase
            /\ state'.isRunning = state.isRunning
            /\ state'.isPaused = state.isPaused]_vars

\* C12 witness: the focus duration was changed while the timer ran, which left
\* the countdown alone, and the timer is part-way through that countdown.
C12_Witness ==
  /\ Running(state)
  /\ state.currentPhase = "focus"
  /\ config.focusDuration = MinDuration
  /\ state.timeRemaining > Seconds(config.focusDuration)
  /\ state.timeRemaining < Seconds(DEFAULT_CONFIG.focusDuration)

\* The record appended last to a history.
LastRecord(store) == store.sessions[Len(store.sessions)]

\* C15: the record written at a phase completion has the phase that just
\* completed, completed = true and that phase's configured length in seconds
\* as its duration, whatever its start and end times.
C15_SessionRecord ==
  [][(PhaseCompletes /\ ls'.sessions # ls.sessions) =>
       /\ Len(ls'.sessions) = Len(ls.sessions) + 1
       /\ LastRecord(ls').phase = state.currentPhase
       /\ LastRecord(ls').completed = TRUE
       /\ LastRecord(ls').duration =
            (CASE state.currentPhase = "focus" -> Seconds(config.focusDuration)
               [] state.currentPhase = "break" -> Seconds(config.breakDuration)
               [] state.currentPhase = "longBreak" -> Seconds(config.longBreakDuration))
       /\ LastRecord(ls').startTime = sessionStartTime
       /\ LastRecord(ls').endTime = today]_vars

\* C15 witness: this timer has recorded a completed break with the break's
\* configured length, after a focus phase it recorded too.
C15_Witness ==
  /\ Len(ls.sessions) = mountSessions + 2
  /\ LastRecord(ls).phase = "break"
  /\ LastRecord(ls).completed
  /\ LastRecord(ls).duration = Seconds(config.breakDuration)
  /\ isTransitioning

\* A step in which a session is recorded through the store.
Records == uuids' # uuids

\* C13 as stated: every recorded session sets lastSessionDate to today and the
\* streak to 1 with no lastSessionDate, leaves it with lastSessionDate = today,
\* adds 1 with lastSessionDate = the day before today, and sets it to 1 with
\* any other lastSessionDate.
C13_Streak ==
  [][Records =>
       LET before == getStatistics(ls)
           after == getStatistics(ls')
       IN /\ after.lastSessionDate = today
          /\ after.dailyStreak =
               (IF before.lastSessionDate = NoTime THEN 1
                ELSE IF before.lastSessionDate = today THEN before.dailyStreak
                ELSE IF before.lastSessionDate = today - 1 THEN before.dailyStreak + 1
                ELSE 1)]_vars

\* C14: recording a session adds its duration to totalFocusTime when its phase
\* is focus and to totalBreakTime when it is break or longBreak, never to
\* both, and adds 1 to completedSessions exactly when it is completed.
C14_Totals ==
  [][Records =>
       LET before == getStatistics(ls)
           after == getStatistics(ls')
           session == LastRecord(ls')
       IN /\ session.duration > 0
          /\ after.totalFocusTime = before.totalFocusTime
               + (IF session.phase = "focus" THEN session.duration ELSE 0)
          /\ after.totalBreakTime = before.totalBreakTime
               + (IF session.phase \in {"break", "longBreak"} THEN session.duration ELSE 0)
          /\ after.completedSessions = before.completedSessions
               + (IF session.completed THEN 1 ELSE 0)]_vars

\* C14 witness: a completed focus session, a completed break and a long break
\* that was not completed are recorded; both totals have grown and the count
\* is one short of the history.
C14_Witness ==
  /\ Len(ls.sessions) = 3
  /\ {ls.sessions[i].phase : i \in 1..3} = Phases
  /\ getStatistics(ls).totalFocusTime = 12
  /\ getStatistics(ls).totalBreakTime = 15
  /\ getStatistics(ls).completedSessions = 2

IsPrefix(s, t) == Len(s) <= Len(t) /\ SubSeq(t, 1, Len(s)) = s

\* A record operation keeps the history as a prefix and puts the new record
\* last, under an id no earlier record has.
Appends ==
  /\ Len(ls'.sessions) = Len(ls.sessions) + 1
  /\ IsPrefix(ls.sessions, ls'.sessions)
  /\ \A i \in 1..Len(ls.sessions) : ls.sessions[i].id # LastRecord(ls').id

\* C16: after a record operation the earlier history is a prefix of the new
\* one and the new record is its last element, under an id no earlier record
\* has; and entries of the history are removed only by clearAll.
C16_AppendOnly ==
  [][/\ RecordSession => Appends
     /\ ~IsPrefix(ls.sessions, ls'.sessions) => ClearAll]_vars

\* The positive numbers a configuration read from the store must hold.
ValidConfig(c) ==
  /\ DOMAIN c = ConfigFields
  /\ c.focusDuration > 0 /\ c.focusDuration >= MinDuration
  /\ c.breakDuration > 0 /\ c.breakDuration >= MinDuration
  /\ c.longBreakDuration > 0 /\ c.longBreakDuration >= MinDuration
  /\ c.sessionsUntilLongBreak >= 1

\* C17: whatever configuration is persisted and whatever is passed to set
\* (zero, negative, null or missing fields), get returns durations > 0 (at
\* least 0.1 minutes) and sessionsUntilLongBreak >= 1, and set takes every
\* input: what it stores is the input, clamped, with the minimum for a null
\* field and null for a missing one.
C17_Clamped ==
  /\ [](ValidConfig(getTimerConfig(ls)))
  /\ [][\A c \in ConfigInputs :
          setConfig(c) =>
            /\ Valued(ls'.config) = Valued(c) \cup Nulls(c)
            /\ Nulls(ls'.config) = ConfigFields \ (Valued(c) \cup Nulls(c))
            /\ \A field \in Nulls(c) : ls'.config[field] = Minimum(field)
            /\ \A field \in Valued(c) :
                 ls'.config[field] =
                   (IF c[field] >= Minimum(field) THEN c[field] ELSE Minimum(field))]_vars

\* C17 witness: set was given a zero focus duration, a negative number of
\* sessions and no break durations; get returns the minimum for the first
\* two and the defaults for the others.
C17_Witness ==
  /\ Valued(ls.config) = {"focusDuration", "sessionsUntilLongBreak"}
  /\ Nulls(ls.config) = {"breakDuration", "longBreakDuration"}
  /\ ls.config.focusDuration = MinDuration
  /\ ls.config.sessionsUntilLongBreak = MinSessions
  /\ getTimerConfig(ls).breakDuration = DEFAULT_CONFIG.breakDuration
  /\ getTimerConfig(ls).longBreakDuration = DEFAULT_CONFIG.longBreakDuration

DurationFields == {"focusDuration", "breakDuration", "longBreakDuration"}

\* C18 as stated: get returns the field's default (clamped to the minimum) for
\* every persisted duration that is missing or <= 0.
C18_DefaultForNonPositive ==
  \A field \in DurationFields :
    (field \notin Valued(ls.config) \/ ls.config[field] <= 0) =>
      getTimerConfig(ls)[field] = Max(MinDuration, DEFAULT_CONFIG[field])

\* C18 as amended: get returns the field's default (clamped to the minimum)
\* for every persisted duration that is missing or null, and the minimum of 0.1
\* minutes for every persisted duration <= 0.
C18_DefaultForMissing ==
  \A field \in DurationFields :
    /\ field \notin Valued(ls.config) =>
         getTimerConfig(ls)[field] = Max(MinDuration, DEFAULT_CONFIG[field])
    /\ (field \in Valued(ls.config) /\ ls.config[field] <= 0) =>
         getTimerConfig(ls)[field] = MinDuration
    /\ (field \in Valued(ls.config) /\ ls.config[field] > 0) =>
         getTimerConfig(ls)[field] = Max(MinDuration, ls.config[field])

\* C18 witness: the persisted configuration lacks the focus duration and has
\* a long break duration of 0; get returns the default for the one and the
\* minimum, not the default, for the other.
C18_Witness ==
  /\ "focusDuration" \notin Valued(ls.config) \cup Nulls(ls.config)
  /\ "longBreakDuration" \in Valued(ls.config)
  /\ ls.config.longBreakDuration = 0
  /\ getTimerConfig(ls).focusDuration = DEFAULT_CONFIG.focusDuration
  /\ getTimerConfig(ls).longBreakDuration = MinDuration
  /\ getTimerConfig(ls).longBreakDuration # DEFAULT_CONFIG.longBreakDuration

\* C19: importData(exportData()) succeeds and leaves configuration,
\* preferences, session history and statistics, as the store returns them,
\* what they were before the export.
C19_RoundTrip ==
  [][RoundTrip =>
       /\ importData(ls, exportData(ls)).ok
       /\ getTimerConfig(ls') = getTimerConfig(ls)
       /\ getPreferences(ls') = getPreferences(ls)
       /\ getSessions(ls') = getSessions(ls)
       /\ getStatistics(ls') = getStatistics(ls)
       /\ exportData(ls') = exportData(ls)]_vars

\* C19 witness: a store with an imported partial configuration, changed
\* preferences, imported statistics and a recorded session has gone through
\* the round trip, which wrote the configuration out in full.
C19_Witness ==
  /\ DOMAIN ls.config = ConfigFields
  /\ ls.config.breakDuration = 30
  /\ ls.config.focusDuration = MinDuration
  /\ "sound" \in Valued(getPreferences(ls))
  /\ ~getPreferences(ls).sound
  /\ Len(ls.sessions) = 1
  /\ DOMAIN ls.statistics = DOMAIN DEFAULT_STATISTICS
  /\ Num(ls.statistics, "completedSessions") = 6

Sections == {"preferences", "config", "sessions", "statistics"}

\* C20: importData of a malformed blob returns false and leaves the four
\* sections as they were; of a well-formed blob it returns true, applies each
\* section the blob has and leaves the other sections as they were.
C20_Import ==
  [][\A jsonData \in BackupBlobs :
       importBlob(jsonData) =>
         LET data == jsonData.data
         IN IF jsonData.json # "object"
              THEN /\ ~importData(ls, jsonData).ok
                   /\ \A section \in Sections : ls'[section] = ls[section]
              ELSE /\ importData(ls, jsonData).ok
                   /\ IF "preferences" \in DOMAIN data
                        THEN getPreferences(ls') = Merge(DEFAULT_PREFERENCES, data.preferences)
                        ELSE ls'.preferences = ls.preferences
                   /\ IF "timerConfig" \in DOMAIN data
                        THEN \A field \in ConfigFields :
                               getTimerConfig(ls')[field] =
                                 (IF field \in Valued(data.timerConfig)
                                    THEN Max(Minimum(field), data.timerConfig[field])
                                    ELSE IF field \in Nulls(data.timerConfig)
                                      THEN Minimum(field)
                                    ELSE DEFAULT_CONFIG[field])
                        ELSE ls'.config = ls.config
                   /\ IF "sessions" \in DOMAIN data
                        THEN getSessions(ls') = data.sessions
                        ELSE ls'.sessions = ls.sessions
                   /\ IF "statistics" \in DOMAIN data
                        THEN getStatistics(ls') = Merge(DEFAULT_STATISTICS, data.statistics)
                        ELSE ls'.statistics = ls.statistics]_vars

\* C20 witness: the preferences and the statistics were imported, each from a
\* blob of its own, over a history of recorded sessions that is still there.
C20_Witness ==
  /\ "sound" \in Valued(ls.preferences)
  /\ ~ls.preferences.sound
  /\ ls.statistics = Object([completedSessions |-> 5, dailyStreak |-> 2,
                              lastSessionDate |-> 0],
                             {"totalFocusTime"})
  /\ Len(ls.sessions) = 2
  /\ \A i \in 1..2 : ls.sessions[i].id # ImportedId
  /\ ls.config = DEFAULT_CONFIG

\* The phase timeout at position i of timeouts fires in this step.
Installs(i) ==
  /\ Len(timeouts') < Len(timeouts)
  /\ timeouts[i].kind = "phase"
  /\ timeouts' = Remove(timeouts, i)

\* C24 as stated: the timeout after a completed break or longBreak leaves
\* isRunning = true for the focus phase, and the timeout after a completed
\* focus phase leaves the next phase not running.
C24_AutoStartFocus ==
  [][\A i \in 1..Len(timeouts) :
       Installs(i) =>
         /\ timeouts[i].phase \in {"break", "longBreak"} => state'.isRunning
         /\ timeouts[i].phase = "focus" => ~state'.isRunning]_vars

\* C24 as amended: the timeout after a completed focus phase installs a break
\* or long break with isRunning = true, and the timeout after a completed
\* break or longBreak installs focus with isRunning = false; isPaused is not
\* part of the statement (the timeout leaves it as it is).
C24_AutoStartBreaks ==
  [][\A i \in 1..Len(timeouts) :
       Installs(i) =>
         /\ timeouts[i].phase = "focus" =>
              state'.currentPhase \in {"break", "longBreak"} /\ state'.isRunning
         /\ timeouts[i].phase \in {"break", "longBreak"} =>
              state'.currentPhase = "focus" /\ ~state'.isRunning]_vars

\* C24 witness: a focus phase and the break started after it have completed,
\* and the focus phase installed then is not running.
C24_Witness ==
  /\ completions = 2
  /\ focusCompleted = 1
  /\ state.currentPhase = "focus"
  /\ ~state.isRunning
  /\ ~isTransitioning
  /\ timeouts = <<>>

\* C25: in every reachable state the phase length in seconds is not 0, so
\* progress is defined, and progress lies in [0, 100]; it is 0 when
\* timeRemaining is the full length of the current phase and 100 when
\* timeRemaining is 0.
C25_Progress ==
  LET progress == getProgress(state, config)
      full == Seconds(getCurrentPhaseDuration(config, state.currentPhase))
  IN /\ progress.den > 0
     /\ 0 <= progress.num
     /\ progress.num <= 100 * progress.den
     /\ state.timeRemaining = full => progress.num = 0
     /\ state.timeRemaining = 0 => progress.num = 100 * progress.den

\* C25 witness: a running countdown with more time remaining than the phase
\* now lasts, after the focus duration was shortened: the clamp acts.
C25_Witness ==
  /\ state.isRunning
  /\ state.currentPhase = "focus"
  /\ config.focusDuration = MinDuration
  /\ state.timeRemaining > Seconds(config.focusDuration)
  /\ getProgress(state, config).num = 0

\* C26, first part: whenever the timer is running, not paused and not in a
\* transition, a session start timestamp is set.
C26_StartTimeSet ==
  (Running(state) /\ ~isTransitioning) => sessionStartTime # NoTime

\* C26, second part: every phase completion appends exactly one session
\* record and adds exactly one to the completed sessions of the statistics.
C26_Recorded ==
  [][PhaseCompletes =>
       /\ Len(getSessions(ls')) = Len(getSessions(ls)) + 1
       /\ getStatistics(ls').completedSessions = getStatistics(ls).completedSessions + 1]_vars

\* C26: a running timer has a session start, and every completed phase is
\* recorded exactly once.
C26_Recording == []C26_StartTimeSet /\ C26_Recorded

\* C26 witness: the focus phase has completed and is recorded, and the break
\* started by the phase timeout is running with its session start set.
C26_Witness ==
  /\ completions = 1
  /\ state.currentPhase = "break"
  /\ Running(state)
  /\ ~isTransitioning
  /\ sessionStartTime # NoTime
  /\ getStatistics(ls).completedSessions = mountSessions + 1

\* C27 as stated: in every reachable state isPaused implies isRunning, so the
\* flags encode Idle, Running or Paused.
C27_PausedImpliesRunning == state.isPaused => state.isRunning

\* C28 as stated: whenever the timer is idle and not in a transition,
\* timeRemaining is the full duration in seconds of the current phase under
\* the current configuration.
C28_IdleAtFullDuration ==
  (Idle(state) /\ ~isTransitioning) =>
    state.timeRemaining = Seconds(getCurrentPhaseDuration(config, state.currentPhase))

\* C30 as stated: whenever the timer is paused, a click on the button it
\* renders then (labelled Resume) can take it to Running with currentPhase
\* and timeRemaining as they are.
C30_Resume ==
  Paused(state) =>
    ENABLED (/\ PauseClick
             /\ Running(state')
             /\ state'.currentPhase = state.currentPhase
             /\ state'.timeRemaining = state.timeRemaining)

\* The sum of the durations of the records of a history whose phase is one
\* of phases.
RECURSIVE SumOfDurations(_, _)
SumOfDurations(history, phases) ==
  IF history = <<>> THEN 0
  ELSE (IF Head(history).phase \in phases THEN Head(history).duration ELSE 0)
         + SumOfDurations(Tail(history), phases)

\* The number of records of a history with completed = true.
RECURSIVE CountCompleted(_)
CountCompleted(history) ==
  IF history = <<>> THEN 0
  ELSE (IF Head(history).completed THEN 1 ELSE 0) + CountCompleted(Tail(history))

\* C29: from cleared storage and without import, the statistics agree with
\* the history: totalFocusTime is the sum of the durations of the focus
\* records, totalBreakTime that of the break and longBreak records, and
\* completedSessions the number of records with completed = true.
C29_StatisticsMatchHistory ==
  LET history == getSessions(ls)
      statistics == getStatistics(ls)
  IN /\ statistics.totalFocusTime = SumOfDurations(history, {"focus"})
     /\ statistics.totalBreakTime = SumOfDurations(history, {"break", "longBreak"})
     /\ statistics.completedSessions = CountCompleted(history)

\* C29 witness: a history with a focus record, a break or long break record
\* and a record that is not completed.
C29_Witness ==
  /\ Len(getSessions(ls)) = MaxRecords
  /\ getStatistics(ls).totalFocusTime > 0
  /\ getStatistics(ls).totalBreakTime > 0
  /\ getStatistics(ls).completedSessions \in 1..(MaxRecords - 1)

\* A step in which one of the persisted totals or the persisted count of
\* completed sessions goes down.
Decreases ==
  \E total \in {"totalFocusTime", "totalBreakTime", "completedSessions"} :
    Num(ls'.statistics, total) < Num(ls.statistics, total)

\* C23 as stated: totalFocusTime, totalBreakTime and completedSessions of the
\* persisted statistics decrease in no store operation other than clearAll.
C23_NeverDecrease == [][Decreases => ClearAll]_vars

\* C23 as amended: they decrease only in clearAll and in an import whose blob
\* has a statistics section, which replaces the statistics.
C23_DecreaseOnlyOnReplace ==
  [][Decreases =>
       \/ ClearAll
       \/ \E jsonData \in BackupBlobs :
            /\ jsonData.json = "object"
            /\ "statistics" \in DOMAIN jsonData.data
            /\ importBlob(jsonData)]_vars

\* C23 witness: sessions were recorded on top of imported statistics, and
\* the totals and the count went up from the imported ones.
C23_Witness ==
  /\ Num(getStatistics(ls), "completedSessions") > 5
  /\ Num(getStatistics(ls), "totalFocusTime") > 0
  /\ Num(getStatistics(ls), "totalBreakTime") > 0

\* C21 as stated: with the storage backend unavailable every read returns
\* the built-in defaults after any sequence of record-session, save and get
\* operations (getStatistics all zero with no lastSessionDate), and no error
\* reaches the caller.
C21_Unavailable ==
  ~ls.available =>
    /\ getStatistics(ls) = DEFAULT_STATISTICS
    /\ getSessions(ls) = <<>>
    /\ getTimerConfig(ls) = DEFAULT_CONFIG
    /\ getPreferences(ls) = DEFAULT_PREFERENCES
    /\ ~ls.thrown

\* C22 as stated: invalid JSON under a key is treated like absent data, so
\* no error propagates from the persistence layer to the timer state machine
\* when it records the session of a phase that has run to 0.
C22_MalformedAsAbsent == ~ls.thrown

\* A step that takes a countdown that is running, and in no transition, out
\* of that state.
StopsRunning ==
  /\ Running(state) /\ ~isTransitioning
  /\ ~(Running(state') /\ ~isTransitioning')

\* The user commands that stop a running countdown: Pause and Reset.
UserStops ==
  \/ state'.isPaused /\ ~state.isPaused
  \/ /\ Len(timeouts') = Len(timeouts) + 1
     /\ LastTimeout(timeouts').kind = "reset"

\* C31 as stated, in the form a finite run refutes: when the timer is running
\* and no user command is issued, ticks and timeouts bring the current phase
\* to completion, so a running countdown stops only by its phase completing
\* (or by a user command), never by a timeout that leaves it idle.
C31_RunsToCompletion ==
  [][StopsRunning => (UserStops \/ PhaseCompletes)]_vars

====
